---- MODULE Spec2Model ----
(***************************************************************************)
(* Model of dashboard/dasboard.py: a Streamlit script that loads two CSV   *)
(* files (CO readings of one station, temperature readings of another),    *)
(* memoizes the load, filters both tables by the date range of a sidebar   *)
(* widget, and renders per-hour and per-day aggregates and six metrics.    *)
(*                                                                         *)
(* One script run (main, top to bottom) is one step of the model.  A       *)
(* calendar date (year, month, day) is a day number; a timestamp is        *)
(* day * 24 + hour, as pd.to_datetime composes it, and .dt.date is the     *)
(* integer division by 24.  A float is the exact fraction num/den, with    *)
(* den = 0 for NaN (pandas' mean of no values is 0/0).                     *)
(***************************************************************************)
EXTENDS Integers, Sequences, FiniteSets

\* ------------------------------------------------------------- bounds
\* Rows of the one table the function-level specification FnSpec draws.
MaxRows == 2
\* Calendar dates are 1..MaxDay; in FnSpec hours are 0..MaxHour and readings
\* 1..MaxVal (or missing).
MaxDay == 2
MaxHour == 1
MaxVal == 2
\* Rows of the two CSV files together in the session specification Spec, whose
\* files hold hours 0..MaxFileHour and readings 1..MaxFileVal (or missing).
MaxTotalRows == 2
MaxFileHour == 0
MaxFileVal == 1
\* Cap on the counter of file reads (it grows while the load keeps failing).
MaxReads == 3

\* ------------------------------------------------- program constants
HoursPerDay == 24
\* An empty CSV cell, which read_csv parses as NaN.
NA == -1
RequiredColumns == {"year", "month", "day", "hour"}
AllColumns == RequiredColumns \cup {"CO", "TEMP"}

Days == 1..MaxDay
Hours == 0..MaxHour
Vals == {NA} \cup (1..MaxVal)
\* A CSV record: its date, its hour, and the measured column the script
\* reads from that file (CO of the first file, TEMP of the second).
Row == [day : Days, hour : Hours, val : Vals]
FileRow == [day : Days, hour : 0..MaxFileHour, val : {NA} \cup (1..MaxFileVal)]

SeqsUpTo(S, n) == UNION {[1..k -> S] : k \in 0..n}

WellFormedFile(rows) == [columns |-> AllColumns, rows |-> rows]
\* A file lacking one required column.  The script never reads its rows
\* (the column check fails first), so they are left out; the file counts as
\* one row towards MaxTotalRows.
MalformedFile(c) == [columns |-> AllColumns \ {c}, rows |-> <<>>]
MalformedFiles == {MalformedFile(c) : c \in RequiredColumns}

\* The pairs of files on disk.  A well-formed CO file holds at least one
\* row: the date widget's default is the min and max of its timestamps.
GoodPairs ==
    UNION {{<<WellFormedFile(c), WellFormedFile(t)>> :
               c \in [1..n -> FileRow], t \in SeqsUpTo(FileRow, MaxTotalRows - n)} :
           n \in 1..MaxTotalRows}
BadPairs ==
    {<<b, WellFormedFile(t)>> :
        b \in MalformedFiles, t \in SeqsUpTo(FileRow, MaxTotalRows - 1)}
    \cup {<<WellFormedFile(c), b>> :
        c \in UNION {[1..n -> FileRow] : n \in 1..(MaxTotalRows - 1)},
        b \in MalformedFiles}
    \cup (MalformedFiles \X MalformedFiles)
FilePairs == GoodPairs \cup BadPairs

VARIABLES
    co_file, temp_file,     \* the two CSV files on disk (static)
    cache,                  \* st.cache_data's entry for load_data(): <<>> or <<value>>
    fileReads,              \* how many times load_data's body read the files
    picked,                 \* the date widget's value set by the user; <<>> = untouched
    status,                 \* "none" | "done" | "stopped" | "exception" of the last run
    steps,                  \* the steps the last run executed, in order
    st_error,               \* the st.error box of the last run: <<>> or <<message>>
    date_range,             \* what st.sidebar.date_input returned in the last run
    filtered_co_data, filtered_temp_data,
    co_counts_by_hour, avg_temp_by_hour,
    metrics,                \* the six st.metric values
    daily_co_data, daily_temp_data

vars == <<co_file, temp_file, cache, fileReads, picked, status, steps, st_error,
          date_range, filtered_co_data, filtered_temp_data, co_counts_by_hour,
          avg_temp_by_hour, metrics, daily_co_data, daily_temp_data>>

\* ------------------------------------------------------ pure helpers
RECURSIVE SortedSeq(_)
SortedSeq(S) ==
    IF S = {} THEN <<>>
    ELSE LET m == CHOOSE x \in S : \A y \in S : x <= y
         IN <<m>> \o SortedSeq(S \ {m})

RECURSIVE SumSeq(_)
SumSeq(s) == IF s = <<>> THEN 0 ELSE Head(s) + SumSeq(Tail(s))

SetMin(S) == CHOOSE x \in S : \A y \in S : x <= y
SetMax(S) == CHOOSE x \in S : \A y \in S : x >= y

NaN == [num |-> 0, den |-> 0]
IsNaN(f) == f.den = 0
Float(v) == [num |-> v, den |-> 1]

\* pd.to_datetime(data[['year', 'month', 'day', 'hour']])
to_datetime(r) == r.day * HoursPerDay + r.hour
\* Series.dt.date / Timestamp.date()
dt_date(ts) == ts \div HoursPerDay

\* data['datetime'] = pd.to_datetime(...): the table with the derived column.
add_datetime(rows) ==
    [i \in 1..Len(rows) |->
        [day |-> rows[i].day, hour |-> rows[i].hour, val |-> rows[i].val,
         datetime |-> to_datetime(rows[i])]]

\* all(col in data.columns for col in ['year', 'month', 'day', 'hour'])
has_required_columns(file) == RequiredColumns \subseteq file.columns

\* Variant: only the first dataset's columns are checked.
load_data_first_checked ==
    IF has_required_columns(co_file)
    THEN [ok |-> TRUE,
          co_data |-> add_datetime(co_file.rows),
          temp_data |-> add_datetime(temp_file.rows)]
    ELSE [ok |-> FALSE, co_data |-> <<>>, temp_data |-> <<>>]

\* The body of load_data: both files are read, then checked in the order
\* [co_data, temp_data]; the first one lacking a column ends the run.
load_data ==
    IF has_required_columns(co_file) /\ has_required_columns(temp_file)
    THEN [ok |-> TRUE,
          co_data |-> add_datetime(co_file.rows),
          temp_data |-> add_datetime(temp_file.rows)]
    ELSE [ok |-> FALSE, co_data |-> <<>>, temp_data |-> <<>>]

\* st.error(...): the text, and the datasets the text names (none: it says
\* "one of the datasets").
SchemaError ==
    [text |-> "Required columns (year, month, day, hour) are not present in one of the datasets.",
     names |-> {}]

\* Variant: load_data without the @st.cache_data decorator.
cache_never_hit == FALSE

\* @st.cache_data: a stored return value is handed back without running the body.
cache_hit == cache # <<>>

\* The default of the date widget: the span of the CO table's timestamps.
default_range(co_data) ==
    LET dates == {dt_date(co_data[i].datetime) : i \in DOMAIN co_data}
    IN <<SetMin(dates), SetMax(dates)>>

\* st.sidebar.date_input: the user's pick, else the default.
date_input(co_data, pick) == IF pick = <<>> THEN default_range(co_data) ELSE pick

\* Variant: the end of the range excluded (< in place of <=).
filter_exclusive_end(data, range) ==
    SelectSeq(data, LAMBDA r : dt_date(r.datetime) >= range[1]
                               /\ dt_date(r.datetime) < range[2])

\* Variant: the selection sliced from its second row (an off-by-one .iloc[1:]).
filter_skip_first(data, range) ==
    LET kept == SelectSeq(data, LAMBDA r : dt_date(r.datetime) >= range[1]
                                           /\ dt_date(r.datetime) <= range[2])
    IN IF kept = <<>> THEN <<>> ELSE Tail(kept)

\* data[(data['datetime'].dt.date >= date_range[0]) &
\*      (data['datetime'].dt.date <= date_range[1])]
filter_by_date(data, range) ==
    SelectSeq(data, LAMBDA r : dt_date(r.datetime) >= range[1]
                               /\ dt_date(r.datetime) <= range[2])

\* DataFrame.groupby(by), `by` a column aligned with the table: one group per
\* distinct key, keys ascending (sort=True), each group's rows in table order.
groupby(data, by) ==
    LET keys == SortedSeq({by[i] : i \in DOMAIN by})
    IN [k \in 1..Len(keys) |->
           LET idx == SortedSeq({i \in DOMAIN data : by[i] = keys[k]})
           IN [key |-> keys[k],
               rows |-> [j \in 1..Len(idx) |-> data[idx[j]]]]]

\* Variant: grouping by data['datetime'] itself, the full timestamp.
timestamp_key(r) == r.datetime

hour_key(r) == r.hour
date_key(r) == dt_date(r.datetime)

\* The non-missing values of the measured column (skipna / dropna).
non_missing(rows) ==
    LET present == SelectSeq(rows, LAMBDA r : r.val # NA)
    IN [i \in 1..Len(present) |-> present[i].val]

\* Variant: .count() in place of .nunique().
count_non_missing(rows) == Len(non_missing(rows))

\* Series.nunique(): distinct non-missing values.
nunique(rows) == Cardinality({non_missing(rows)[i] : i \in DOMAIN non_missing(rows)})
\* Series.mean(): sum / count of the non-missing values; 0/0 is NaN.
mean(rows) == [num |-> SumSeq(non_missing(rows)), den |-> Len(non_missing(rows))]
\* Series.max() / Series.min(): NaN when no value is present.
series_max(rows) ==
    IF non_missing(rows) = <<>> THEN NaN
    ELSE Float(SetMax({non_missing(rows)[i] : i \in DOMAIN non_missing(rows)}))
series_min(rows) ==
    IF non_missing(rows) = <<>> THEN NaN
    ELSE Float(SetMin({non_missing(rows)[i] : i \in DOMAIN non_missing(rows)}))

\* f"{x:.2f}": "nan" for NaN, else the value in hundredths, rounded (no
\* fraction of the bounded model lies on a rounding tie).
format_2f(f, suffix) ==
    IF IsNaN(f) THEN [text |-> "nan", suffix |-> suffix]
    ELSE [text |-> "fixed2", suffix |-> suffix,
          hundredths |-> (200 * f.num + f.den) \div (2 * f.den)]

\* filtered_co_data.groupby('hour')['CO'].nunique().reset_index()
nunique_by_hour(data) ==
    LET g == groupby(data, [i \in DOMAIN data |-> hour_key(data[i])])
    IN [k \in 1..Len(g) |-> [hour |-> g[k].key, CO |-> nunique(g[k].rows)]]

\* filtered_temp_data.groupby('hour')['TEMP'].mean().reset_index()
mean_by_hour(data) ==
    LET g == groupby(data, [i \in DOMAIN data |-> hour_key(data[i])])
    IN [k \in 1..Len(g) |-> [hour |-> g[k].key, TEMP |-> mean(g[k].rows)]]

\* data.groupby(data['datetime'].dt.date)[col].mean().reset_index()
groupby_date(data) == groupby(data, [i \in DOMAIN data |-> date_key(data[i])])
mean_by_date(data) ==
    LET g == groupby_date(data)
    IN [k \in 1..Len(g) |-> [datetime |-> g[k].key, mean |-> mean(g[k].rows)]]

\* The six st.metric calls.
summary(co, temp) ==
    [co_mean   |-> format_2f(mean(co), ""),
     co_max    |-> series_max(co),
     co_min    |-> series_min(co),
     temp_mean |-> format_2f(mean(temp), " C"),
     temp_max  |-> format_2f(series_max(temp), " C"),
     temp_min  |-> format_2f(series_min(temp), " C")]

NoOutput ==
    /\ filtered_co_data' = <<>>
    /\ filtered_temp_data' = <<>>
    /\ co_counts_by_hour' = <<>>
    /\ avg_temp_by_hour' = <<>>
    /\ metrics' = <<>>
    /\ daily_co_data' = <<>>
    /\ daily_temp_data' = <<>>

\* main() from the date filter to the last chart, on loaded tables and a
\* complete date range.
render(co_data, temp_data, range) ==
    /\ date_range' = range
    /\ filtered_co_data' = filter_by_date(co_data, range)
    /\ filtered_temp_data' = filter_by_date(temp_data, range)
    /\ co_counts_by_hour' = nunique_by_hour(filtered_co_data')
    /\ avg_temp_by_hour' = mean_by_hour(filtered_temp_data')
    /\ metrics' = summary(filtered_co_data', filtered_temp_data')
    /\ daily_co_data' = mean_by_date(filtered_co_data')
    /\ daily_temp_data' = mean_by_date(filtered_temp_data')
    /\ st_error' = <<>>
    /\ status' = "done"

RenderSteps == <<"filter", "hourly_distinct_count", "hourly_mean", "summary",
                 "daily_mean", "charts">>

\* One run of the script with the date widget holding `pick`.
main(pick) ==
    LET hit == cache_hit
        loaded == IF hit THEN [ok |-> TRUE, co_data |-> cache[1].co_data,
                               temp_data |-> cache[1].temp_data]
                  ELSE load_data
        first == IF hit THEN <<"cache_hit">> ELSE <<"read_csv">>
    IN
    /\ hit \/ fileReads < MaxReads
    /\ fileReads' = IF hit THEN fileReads ELSE fileReads + 1
    /\ picked' = pick
    /\ UNCHANGED <<co_file, temp_file>>
    /\ IF ~loaded.ok
       THEN \* st.error(...); st.stop(): nothing is cached, nothing else runs
            /\ cache' = <<>>
            /\ status' = "stopped"
            /\ steps' = first \o <<"st.error", "st.stop">>
            /\ st_error' = <<SchemaError>>
            /\ date_range' = <<>>
            /\ NoOutput
       ELSE /\ cache' = <<[co_data |-> loaded.co_data, temp_data |-> loaded.temp_data]>>
            /\ LET range == date_input(loaded.co_data, pick)
               IN IF Len(range) < 2
                  THEN \* date_range[1] raises IndexError in the filter
                       /\ status' = "exception"
                       /\ steps' = first \o <<"date_input">>
                       /\ st_error' = <<>>
                       /\ date_range' = range
                       /\ NoOutput
                  ELSE /\ steps' = first \o <<"date_input">> \o RenderSteps
                       /\ render(loaded.co_data, loaded.temp_data, range)

\* The values the date widget lets the user reach: a start alone (the range
\* is being picked), or a start and an end, within min_value..max_value.
WidgetPicks(co_data) ==
    LET lo == default_range(co_data)[1]
        hi == default_range(co_data)[2]
    IN {<<a>> : a \in lo..hi}
       \cup UNION {{<<a, b>> : b \in a..hi} : a \in lo..hi}

\* ------------------------------------------------------------ session
Init ==
    /\ \E p \in FilePairs : co_file = p[1] /\ temp_file = p[2]
    /\ cache = <<>>
    /\ fileReads = 0
    /\ picked = <<>>
    /\ status = "none"
    /\ steps = <<>>
    /\ st_error = <<>>
    /\ date_range = <<>>
    /\ filtered_co_data = <<>>
    /\ filtered_temp_data = <<>>
    /\ co_counts_by_hour = <<>>
    /\ avg_temp_by_hour = <<>>
    /\ metrics = <<>>
    /\ daily_co_data = <<>>
    /\ daily_temp_data = <<>>

\* The page is opened: the first run of the script.
OpenPage ==
    /\ status = "none"
    /\ main(<<>>)

\* The user changes the date widget (shown by the last run); Streamlit
\* reruns the script.
ChangeDateRange(pick) ==
    /\ status \in {"done", "exception"}
    /\ pick \in WidgetPicks(cache[1].co_data)
    /\ main(pick)

\* The script is rerun with the widget as it is (the Rerun command).
Rerun ==
    /\ status # "none"
    /\ main(picked)

Next ==
    \/ OpenPage
    \/ \E a \in Days : ChangeDateRange(<<a>>)
    \/ \E a \in Days, b \in Days : ChangeDateRange(<<a, b>>)
    \/ Rerun

Spec == Init /\ [][Next]_vars

\* ----------------------------------------------- function-level harness
\* The filter and the aggregates applied to any table and any date range:
\* the state after a load of the table (as both the CO and the temperature
\* table), then lines 43-153 of main under an arbitrary range.
FnInit ==
    /\ \E rows \in SeqsUpTo(Row, MaxRows) :
          /\ co_file = WellFormedFile(rows)
          /\ temp_file = WellFormedFile(rows)
          /\ cache = <<[co_data |-> add_datetime(rows), temp_data |-> add_datetime(rows)]>>
    /\ fileReads = 1
    /\ picked = <<>>
    /\ status = "none"
    /\ steps = <<>>
    /\ st_error = <<>>
    /\ date_range = <<>>
    /\ filtered_co_data = <<>>
    /\ filtered_temp_data = <<>>
    /\ co_counts_by_hour = <<>>
    /\ avg_temp_by_hour = <<>>
    /\ metrics = <<>>
    /\ daily_co_data = <<>>
    /\ daily_temp_data = <<>>

FnApply(a, b) ==
    /\ status = "none"
    /\ steps' = RenderSteps
    /\ render(cache[1].co_data, cache[1].temp_data, <<a, b>>)
    /\ UNCHANGED <<co_file, temp_file, cache, fileReads, picked>>

FnNext == \E a \in Days, b \in Days : FnApply(a, b)

FnSpec == FnInit /\ [][FnNext]_vars

\* ================================================================ claims
co_data == cache[1].co_data
temp_data == cache[1].temp_data

\* `result` is exactly the rows of `data` dated within lo..hi, in table order:
\* as many rows as `data` has in range, each in range, and a subsequence.
IsDateSlice(data, result, lo, hi) ==
    /\ Len(result) = Cardinality({i \in DOMAIN data : lo <= data[i].day /\ data[i].day <= hi})
    /\ \A k \in DOMAIN result : lo <= result[k].day /\ result[k].day <= hi
    /\ \E f \in [DOMAIN result -> DOMAIN data] :
          /\ \A j \in DOMAIN result, k \in DOMAIN result : j < k => f[j] < f[k]
          /\ \A k \in DOMAIN result : result[k] = data[f[k]]

\* C1: for every table and every date range, the filter returns exactly the
\* rows whose calendar date d has start_date <= d <= end_date, in the table's
\* order, for the CO table and the temperature table alike.
C1_FilterExact ==
    status = "done" =>
        /\ IsDateSlice(co_data, filtered_co_data, date_range[1], date_range[2])
        /\ IsDateSlice(temp_data, filtered_temp_data, date_range[1], date_range[2])

\* A table of two rows in descending date order, the first outside the
\* range and dropped, the second on the range's end date and kept.
C1_Witness ==
    /\ status = "done"
    /\ Len(co_data) = 2
    /\ co_data[1].day > co_data[2].day
    /\ co_data[2].day = date_range[2]
    /\ filtered_co_data = <<co_data[2]>>

\* C8: for a range a <= b the filter is idempotent: filtering the filtered
\* table again with the same range gives the same rows in the same order.
C8_FilterIdempotent ==
    (status = "done" /\ date_range[1] <= date_range[2]) =>
        /\ filter_by_date(filtered_co_data, date_range) = filtered_co_data
        /\ filter_by_date(filtered_temp_data, date_range) = filtered_temp_data

\* A valid range that kept one row of the table and dropped the other.
C8_Witness ==
    /\ status = "done"
    /\ date_range[1] <= date_range[2]
    /\ Len(co_data) = 2
    /\ Len(filtered_co_data) = 1

\* The dates and the hours present in a table, and the rows of one hour.
DatesOf(data) == {data[i].day : i \in DOMAIN data}
HoursOf(data) == {data[i].hour : i \in DOMAIN data}
BucketValues(data, h) == {data[i].val : i \in {j \in DOMAIN data : data[j].hour = h}} \ {NA}

\* `daily` holds one entry per distinct date of `data`, in strictly ascending
\* date order, and the per-date groups hold all the rows of `data` between them.
IsDailyView(data, daily) ==
    /\ Len(daily) = Cardinality(DatesOf(data))
    /\ {daily[k].datetime : k \in DOMAIN daily} = DatesOf(data)
    /\ \A j \in DOMAIN daily, k \in DOMAIN daily :
          j < k => daily[j].datetime < daily[k].datetime
    /\ LET g == groupby_date(data)
       IN /\ Len(g) = Len(daily)
          /\ \A k \in DOMAIN g : g[k].key = daily[k].datetime
          /\ SumSeq([k \in 1..Len(g) |-> Len(g[k].rows)]) = Len(data)

\* C5: daily_mean gives exactly one entry per distinct calendar date of the
\* filtered rows (grouped by date, not by timestamp), in strictly ascending
\* date order, and the per-day row counts sum to the number of filtered rows.
C5_DailyOnePerDate ==
    status = "done" =>
        /\ IsDailyView(filtered_co_data, daily_co_data)
        /\ IsDailyView(filtered_temp_data, daily_temp_data)

\* Two filtered rows of one date at different hours give a single daily entry.
C5_Witness ==
    /\ status = "done"
    /\ Len(filtered_co_data) = 2
    /\ filtered_co_data[1].day = filtered_co_data[2].day
    /\ filtered_co_data[1].hour # filtered_co_data[2].hour
    /\ Len(daily_co_data) = 1

\* C6: every entry of hourly_mean carries a defined mean (not NaN) that lies
\* between the minimum and the maximum of its hour bucket's values, and only
\* hours with rows in the filtered data have an entry.
C6_HourlyMeanDefinedAndBounded ==
    status = "done" =>
        \A k \in DOMAIN avg_temp_by_hour :
            LET e == avg_temp_by_hour[k]
                vs == BucketValues(filtered_temp_data, e.hour)
            IN /\ e.hour \in HoursOf(filtered_temp_data)
               /\ ~IsNaN(e.TEMP)
               /\ SetMin(vs) * e.TEMP.den <= e.TEMP.num
               /\ e.TEMP.num <= SetMax(vs) * e.TEMP.den

\* The table of the spec's example: hours [0, 0, 1] with CO [1, 3, 5].
ExampleRows ==
    add_datetime(<<[day |-> 1, hour |-> 0, val |-> 1],
                   [day |-> 1, hour |-> 0, val |-> 3],
                   [day |-> 1, hour |-> 1, val |-> 5]>>)

\* C7: hourly_distinct_count maps each hour occurring in the filtered rows
\* (the row's hour field) to the number of distinct non-missing values among
\* the rows of that hour, and holds no entry for any other hour; hours
\* [0, 0, 1] with CO [1, 3, 5] give {0: 2, 1: 1}.
C7_HourlyDistinctCount ==
    /\ nunique_by_hour(ExampleRows) = <<[hour |-> 0, CO |-> 2], [hour |-> 1, CO |-> 1]>>
    /\ status = "done" =>
          /\ Len(co_counts_by_hour) = Cardinality(HoursOf(filtered_co_data))
          /\ {co_counts_by_hour[k].hour : k \in DOMAIN co_counts_by_hour}
                = HoursOf(filtered_co_data)
          /\ \A k \in DOMAIN co_counts_by_hour :
                co_counts_by_hour[k].CO
                   = Cardinality(BucketValues(filtered_co_data, co_counts_by_hour[k].hour))

\* Two filtered rows of one hour with the same reading count as one distinct
\* value, and the other hour of the table has no entry.
C7_Witness ==
    /\ status = "done"
    /\ Len(filtered_co_data) = 2
    /\ filtered_co_data[1].hour = filtered_co_data[2].hour
    /\ filtered_co_data[1].val = filtered_co_data[2].val
    /\ filtered_co_data[1].val # NA
    /\ co_counts_by_hour = <<[hour |-> filtered_co_data[1].hour, CO |-> 1]>>

\* ------------------------------------------------- claims on the session
Malformed(file) == ~(RequiredColumns \subseteq file.columns)
AnyMalformed == Malformed(co_file) \/ Malformed(temp_file)
MalformedDatasets ==
    (IF Malformed(co_file) THEN {"co_data"} ELSE {})
    \cup (IF Malformed(temp_file) THEN {"temp_data"} ELSE {})
Ran(step) == \E i \in DOMAIN steps : steps[i] = step
NothingRendered ==
    /\ \A i \in DOMAIN RenderSteps : ~Ran(RenderSteps[i])
    /\ filtered_co_data = <<>> /\ filtered_temp_data = <<>>
    /\ co_counts_by_hour = <<>> /\ avg_temp_by_hour = <<>>
    /\ metrics = <<>>
    /\ daily_co_data = <<>> /\ daily_temp_data = <<>>

\* C2: a run under the default date range (the widget untouched) leaves every
\* filtered table equal to its loaded table, row for row: the CO table and the
\* temperature table.
C2_DefaultRangeKeepsAll ==
    (status = "done" /\ picked = <<>>) =>
        /\ filtered_co_data = co_data
        /\ filtered_temp_data = temp_data

\* C3 (as claimed): when a file lacks a required column the run halts with a
\* schema error that identifies the malformed dataset, and no filter,
\* aggregate, summary or chart step runs.
C3_ErrorIdentifiesDataset ==
    (status # "none" /\ AnyMalformed) =>
        /\ status = "stopped"
        /\ st_error # <<>>
        /\ st_error[1].names # {}
        /\ st_error[1].names \subseteq MalformedDatasets
        /\ NothingRendered

\* C3 (amended): when a file lacks a required column the run halts after an
\* error message that names no dataset ("one of the datasets"), nothing is
\* cached, and no filter, aggregate, summary or chart step runs in that run.
C3_MalformedHaltsRun ==
    (status # "none" /\ AnyMalformed) =>
        /\ status = "stopped"
        /\ st_error # <<>>
        /\ st_error[1].names = {}
        /\ cache = <<>>
        /\ NothingRendered

\* A run halted by the second dataset: the CO file is well-formed, the
\* temperature file lacks a column.
C3_Witness ==
    /\ status = "stopped"
    /\ ~Malformed(co_file)
    /\ Malformed(temp_file)
    /\ Len(co_file.rows) > 0
    /\ Ran("st.stop")

\* C4: when a filtered table is empty, no statistic of its variable reaches
\* the presentation layer as NaN (it is surfaced as an explicit no-data state).
C4_EmptySummaryIsNotNaN ==
    status = "done" =>
        /\ filtered_co_data = <<>> =>
              /\ metrics.co_mean.text # "nan"
              /\ ~IsNaN(metrics.co_max)
              /\ ~IsNaN(metrics.co_min)
        /\ filtered_temp_data = <<>> =>
              /\ metrics.temp_mean.text # "nan"
              /\ metrics.temp_max.text # "nan"
              /\ metrics.temp_min.text # "nan"

C10_FilterNeverFails ==
    (status # "none" /\ ~AnyMalformed) =>
        /\ status = "done"
        /\ Ran("hourly_distinct_count")
        /\ (date_range[1] > date_range[2]
            \/ date_range[2] < default_range(co_data)[1]
            \/ date_range[1] > default_range(co_data)[2])
               => filtered_co_data = <<>>

====
